---- MODULE Spec2Model ----
(***************************************************************************)
(* Model of the AR project setup script (src/python.py).                   *)
(*                                                                         *)
(* The program's state is the filesystem below the project root (the       *)
(* current working directory) and the position of run_setup in its fixed   *)
(* sequence of calls.  A directory entry carries the set of files it       *)
(* holds; a file entry carries its content as a sequence of text blocks.   *)
(* Filesystem calls can raise OSError for reasons outside the program      *)
(* (permission denied, disk full): those are nondeterministic branches.    *)
(***************************************************************************)
EXTENDS Integers, Sequences, FiniteSets, TLC

VARIABLES fs, fs0, fsInit, pc, step, failedAt, reported, run, prevOutcome

vars == <<fs, fs0, fsInit, pc, step, failedAt, reported, run, prevOutcome>>

(* ---------------- bounds of the model ---------------- *)

\* number of entries that exist under the project root before the first run
MaxPre == 2
\* number of successive invocations of the script
MaxRuns == 2

(* ---------------- filesystem entries ---------------- *)

Absent == [kind |-> "absent", content |-> <<>>, children |-> {}]

File(c) == [kind |-> "file", content |-> c, children |-> {}]

Dir(ch) == [kind |-> "dir", content |-> <<>>, children |-> ch]

(* ---------------- fixed data of the script ---------------- *)

\* the list built in create_directory_structure, in its order
directoriesMissingJs == <<"markers", "models", "assets", "css">>
directories == <<"markers", "models", "assets", "css", "js">>

readme_path_sibling == "notes.txt"
readme_path == "README.md"

gitignore_path == ".gitignore"

render_path == "render.yaml"

git_path == ".git"

\* the three fixed bodies, as sequences of text blocks (first and last block)
readme_content == <<"# Interactive AR Narrative Experience", "## Credits">>

gitignore_content == <<"# Dependencies", "# Temporary files">>

render_config == <<"services: web ar-narrative-experience static", "headers: X-Frame-Options X-Content-Type-Options">>

\* the calls of run_setup, in the order it makes them
run_setup_swapped == <<"create_directory_structure", "create_gitignore", "create_readme", "create_render_config", "check_git_setup", "display_next_steps">>
run_setup == <<"create_directory_structure", "create_readme", "create_gitignore", "create_render_config", "check_git_setup", "display_next_steps">>

(* ---------------- the universe of names under the project root -------- *)

BackupName == "README.md.bak"

Names == {"markers", "models", "assets", "css", "js", "README.md", ".gitignore", "render.yaml", ".git", "notes.txt", "README.md.bak"}

\* what may lie under the project root before the script is first run
PreEntries == {File(<<"old">>), Dir({}), Dir({<<"keep.txt", <<"mine">>>>})}

(* ---------------- filesystem calls ---------------- *)

\* Path.mkdir(exist_ok=True) raises FileExistsError when the path exists
\* and is not a directory
FileExistsErrorNever(f, d) == FALSE
FileExistsError(f, d) == f[d].kind = "file"

\* Path.mkdir(exist_ok=True) when it returns normally
mkdirRecreate(f, d) == [f EXCEPT ![d] = Dir({})]
mkdir(f, d) == IF f[d].kind = "absent" THEN [f EXCEPT ![d] = Dir({})] ELSE f

\* the loop of create_directory_structure after its first n iterations
RECURSIVE MkdirAll(_, _)
MkdirAll(f, n) == IF n = 0 THEN f ELSE mkdir(MkdirAll(f, n - 1), directories[n])

\* open(path, "w") raises IsADirectoryError when the path is a directory
IsADirectoryError(f, name) == f[name].kind = "dir"

\* with open(path, "w") as f: f.write(content), when it returns normally
WriteFileAppend(f, name, content) == [f EXCEPT ![name] = File(f[name].content \o content)]
WriteFileBackup(f, name, content) == IF f[name].kind = "file" THEN [f EXCEPT ![name] = File(content), ![BackupName] = f[name]] ELSE [f EXCEPT ![name] = File(content)]
WriteFileKeep(f, name, content) == IF f[name].kind = "file" THEN f ELSE [f EXCEPT ![name] = File(content)]
WriteFile(f, name, content) == [f EXCEPT ![name] = File(content)]

\* open(path, "w") has truncated the file and the write then failed: what is
\* on disk is a proper prefix of the content
Prefixes(content) == {SubSeq(content, 1, k) : k \in 0..(Len(content) - 1)}

\* (project_root / ".git").exists()
GitExistsIsDir(f) == f[git_path].kind = "dir"
GitExists(f) == f[git_path].kind # "absent"

\* run_setup has no try/except: an exception raised by a call ends the run
\* instead of reaching the state the call would have reached
PropagateSwallowed(reached) == reached
Propagate(reached) == "Aborted"

\* the filesystem a run leaves when no call raises
Final(f) == WriteFile(WriteFile(WriteFile(MkdirAll(f, Len(directories)), readme_path, readme_content), gitignore_path, gitignore_content), render_path, render_config)

(* ---------------- initial states ---------------- *)

Init ==
    /\ \E S \in {T \in SUBSET Names : Cardinality(T) <= MaxPre} :
         \E g \in [S -> PreEntries] :
            fs = [n \in Names |-> IF n \in S THEN g[n] ELSE Absent]
    /\ fs0 = fs
    /\ fsInit = fs
    /\ pc = "Start"
    /\ step = 1
    /\ failedAt = "none"
    /\ reported = "none"
    /\ run = 1
    /\ prevOutcome = "none"

(* ---------------- the calls of run_setup ---------------- *)

Running == pc \notin {"Aborted", "Done"} /\ step <= Len(run_setup)

Frame == UNCHANGED <<fs0, fsInit, run, prevOutcome>>

create_directory_structure ==
    /\ Running
    /\ run_setup[step] = "create_directory_structure"
    /\ step' = step + 1
    /\ \/ /\ \A j \in 1..Len(directories) : ~FileExistsError(MkdirAll(fs, j - 1), directories[j])
          /\ fs' = MkdirAll(fs, Len(directories))
          /\ pc' = "DirectoriesEnsured"
          /\ UNCHANGED failedAt
       \/ \E k \in 1..Len(directories) :
             /\ \A j \in 1..(k - 1) : ~FileExistsError(MkdirAll(fs, j - 1), directories[j])
             /\ \/ FileExistsError(MkdirAll(fs, k - 1), directories[k])
                \/ fs[directories[k]].kind = "absent"
             /\ fs' = MkdirAll(fs, k - 1)
             /\ pc' = Propagate("DirectoriesEnsured")
             /\ failedAt' = directories[k]
    /\ UNCHANGED reported
    /\ Frame

\* the body shared by the three methods that write a fixed file
WriteStep(path, content, reached) ==
    /\ step' = step + 1
    /\ \/ /\ ~IsADirectoryError(fs, path)
          /\ fs' = WriteFile(fs, path, content)
          /\ pc' = reached
          /\ UNCHANGED failedAt
       \/ /\ fs' = fs
          /\ pc' = Propagate(reached)
          /\ failedAt' = path
       \/ /\ ~IsADirectoryError(fs, path)
          /\ \E p \in Prefixes(content) : fs' = [fs EXCEPT ![path] = File(p)]
          /\ pc' = Propagate(reached)
          /\ failedAt' = path
    /\ UNCHANGED reported
    /\ Frame

create_readme ==
    /\ Running
    /\ run_setup[step] = "create_readme"
    /\ WriteStep(readme_path, readme_content, "ReadmeWritten")

create_gitignore ==
    /\ Running
    /\ run_setup[step] = "create_gitignore"
    /\ WriteStep(gitignore_path, gitignore_content, "IgnoreFileWritten")

create_render_config ==
    /\ Running
    /\ run_setup[step] = "create_render_config"
    /\ WriteStep(render_path, render_config, "ConfigWritten")

check_git_setup ==
    /\ Running
    /\ run_setup[step] = "check_git_setup"
    /\ reported' = IF GitExists(fs) THEN "Git repository detected" ELSE "Git not initialized. Run: git init"
    /\ pc' = "VcsChecked"
    /\ step' = step + 1
    /\ UNCHANGED <<fs, failedAt>>
    /\ Frame

display_next_steps ==
    /\ Running
    /\ run_setup[step] = "display_next_steps"
    /\ pc' = "GuidancePrinted"
    /\ step' = step + 1
    /\ UNCHANGED <<fs, failedAt, reported>>
    /\ Frame

\* run_setup and main return
main_returns ==
    /\ pc \notin {"Aborted", "Done"}
    /\ step = Len(run_setup) + 1
    /\ pc' = "Done"
    /\ UNCHANGED <<fs, step, failedAt, reported>>
    /\ Frame

\* the script is invoked again in the same working directory
main ==
    /\ pc \in {"Aborted", "Done"}
    /\ run < MaxRuns
    /\ run' = run + 1
    /\ prevOutcome' = pc
    /\ fs0' = fs
    /\ pc' = "Start"
    /\ step' = 1
    /\ failedAt' = "none"
    /\ reported' = "none"
    /\ UNCHANGED <<fs, fsInit>>

Next ==
    \/ create_directory_structure
    \/ create_readme
    \/ create_gitignore
    \/ create_render_config
    \/ check_git_setup
    \/ display_next_steps
    \/ main_returns
    \/ main

Spec == Init /\ [][Next]_vars

(* ======================================================================= *)
(* Properties                                                              *)
(* ======================================================================= *)

\* names used by the properties, spelled out as the documentation lists them
FiveDirs == <<"markers", "models", "assets", "css", "js">>

ThreeFiles == <<"README.md", ".gitignore", "render.yaml">>

TargetOrder == FiveDirs \o ThreeFiles

FiveDirSet == {FiveDirs[j] : j \in 1..5}

ThreeFileSet == {ThreeFiles[j] : j \in 1..3}

Pos(t) == CHOOSE j \in 1..8 : TargetOrder[j] = t

FixedContent(t) == IF t = "README.md" THEN readme_content ELSE IF t = ".gitignore" THEN gitignore_content ELSE render_config

\* what a completed step leaves at its target, given what was there at the start of the run
AsWritten(t) == IF t \in ThreeFileSet THEN File(FixedContent(t)) ELSE IF fs0[t].kind = "dir" THEN fs0[t] ELSE Dir({})

Detected == "Git repository detected"

NotInitialized == "Git not initialized. Run: git init"

\* C1: idempotence: a second successful run right after a successful run
\* leaves the filesystem exactly as the first run left it (same directories
\* with the same contents, same files with identical content).
C1_Idempotence == (run >= 2 /\ prevOutcome = "Done" /\ pc = "Done") => fs = fs0

C1_Witness ==
    /\ run = 2 /\ prevOutcome = "Done" /\ pc = "Done"
    /\ fsInit["README.md"] = File(<<"old">>)
    /\ fsInit["markers"].children # {}

\* C2: completeness: when run_setup reaches its end without a failure, the
\* five directories and the three files all exist under the project root,
\* whatever subset of them existed before the run.
C2_Completeness ==
    pc = "Done" =>
        /\ \A d \in FiveDirSet : fs[d].kind = "dir"
        /\ \A t \in ThreeFileSet : fs[t].kind = "file"

C2_Witness ==
    /\ pc = "Done" /\ run = 1
    /\ fs0["css"].kind = "dir" /\ fs0["render.yaml"].kind = "file"
    /\ fs0["js"].kind = "absent" /\ fs0["README.md"].kind = "absent"

\* C3: non-destructive directory creation: a directory among the five that
\* existed before the run still exists at every point of the run, finished
\* or aborted, and holds the same files with the same content.
C3_NonDestructive == \A d \in FiveDirSet : fs0[d].kind = "dir" => fs[d] = fs0[d]

C3_Witness ==
    /\ pc = "Done"
    /\ fs0["models"] = Dir({<<"keep.txt", <<"mine">>>>})
    /\ fs["models"] = fs0["models"]

C3_WitnessAborted ==
    /\ pc = "Aborted" /\ failedAt = "css"
    /\ fs0["markers"].children # {}

\* C4 as stated: the run reports "detected" exactly when a .git DIRECTORY is
\* present, and "not initialized" whenever there is no such directory.
C4_Original == reported # "none" => (reported = Detected <=> fs[".git"].kind = "dir")

\* C4 amended: the run reports "detected" when any entry named .git exists
\* under the project root (a directory or a regular file) and "not
\* initialized" when no entry of that name exists; in both cases the check is
\* followed by display_next_steps and the run completes.
C4_VcsDetection ==
    /\ [][pc = "ConfigWritten" =>
            /\ pc' = "VcsChecked"
            /\ fs' = fs
            /\ reported' = IF fs[".git"].kind = "absent" THEN NotInitialized ELSE Detected]_vars
    /\ [][pc = "VcsChecked" => pc' = "GuidancePrinted" /\ fs' = fs /\ reported' = reported]_vars
    /\ [][pc = "GuidancePrinted" => pc' = "Done" /\ fs' = fs /\ reported' = reported]_vars
    /\ [](pc \in {"ConfigWritten", "VcsChecked", "GuidancePrinted"} => ENABLED (check_git_setup \/ display_next_steps \/ main_returns))
    /\ [](pc = "Done" => reported \in {Detected, NotInitialized})

C4_Witness == pc = "Done" /\ reported = Detected /\ fs[".git"].kind = "file"

C4_WitnessAbsent == pc = "Done" /\ reported = NotInitialized /\ fs[".git"].kind = "absent"

\* C5: abort without rollback: when a directory creation or a file write
\* fails, the run ends at that step; every target of an earlier step is in
\* place as written, every target of a later step is as it was before the
\* run, the git check has not run, and nothing changes afterwards until the
\* script is invoked again.
C5_AbortNoRollback ==
    /\ [](failedAt # "none" =>
            /\ pc = "Aborted"
            /\ reported = "none"
            /\ \A t \in FiveDirSet \cup ThreeFileSet :
                  /\ Pos(t) < Pos(failedAt) => fs[t] = AsWritten(t)
                  /\ Pos(t) > Pos(failedAt) => fs[t] = fs0[t])
    /\ [][pc = "Aborted" => fs' = fs /\ pc' = "Start" /\ run' = run + 1]_vars

C5_Witness ==
    /\ pc = "Aborted" /\ failedAt = ".gitignore"
    /\ fs0["README.md"] = File(<<"old">>) /\ fs["README.md"] = File(readme_content)
    /\ fs0["markers"].kind = "absent" /\ fs["markers"].kind = "dir"
    /\ fs["render.yaml"].kind = "absent"

\* C6: exact footprint: from an empty project root a successful run leaves
\* exactly the five empty directories and the three files; in every run,
\* whatever is created or written is one of these eight children of the
\* project root: every other entry, and the content of every directory, is
\* as it was before the run.
C6_ExactFootprint ==
    /\ \A n \in Names \ (FiveDirSet \cup ThreeFileSet) : fs[n] = fs0[n]
    /\ \A d \in FiveDirSet : fs[d].children = fs0[d].children
    /\ \A t \in ThreeFileSet : fs[t].children = fs0[t].children
    /\ (run = 1 /\ pc = "Done" /\ \A n \in Names : fsInit[n] = Absent) =>
          fs = [n \in Names |-> IF n \in FiveDirSet THEN Dir({})
                                ELSE IF n \in ThreeFileSet THEN File(FixedContent(n))
                                ELSE Absent]

C6_Witness == run = 1 /\ pc = "Done" /\ \A n \in Names : fsInit[n] = Absent

C6_WitnessOther == pc = "Done" /\ fs0["notes.txt"] = File(<<"old">>) /\ fs0[".git"].kind = "dir"

\* C7: overwrite semantics: after a successful run each of the three files
\* holds exactly its fixed content, whatever it held before, and no copy of
\* the prior content exists: no file other than the three has appeared or
\* changed, and no directory has gained a file.
C7_Overwrite ==
    pc = "Done" =>
        /\ \A t \in ThreeFileSet : fs[t] = File(FixedContent(t))
        /\ \A n \in Names \ ThreeFileSet :
              /\ fs[n].kind = "file" => fs[n] = fs0[n]
              /\ fs[n].children \subseteq fs0[n].children

C7_Witness ==
    /\ pc = "Done"
    /\ fs0["README.md"] = File(<<"old">>) /\ fs0["render.yaml"] = File(<<"old">>)
    /\ fs["README.md"] = File(readme_content)

\* C8: safe resume: when a run has aborted and a later run succeeds, the
\* filesystem is the one a single successful run from the original initial
\* state produces.
C8_SafeResume == (prevOutcome = "Aborted" /\ pc = "Done") => fs = Final(fsInit)

C8_Witness ==
    /\ prevOutcome = "Aborted" /\ pc = "Done" /\ run = 2
    /\ fsInit["README.md"] = File(<<"old">>)
    /\ fs0["README.md"] = File(<<"# Interactive AR Narrative Experience">>)

C8_WitnessDirs ==
    /\ prevOutcome = "Aborted" /\ pc = "Done" /\ run = 2
    /\ fsInit["models"].kind = "absent" /\ fs0["models"].kind = "dir" /\ fs0["css"].kind = "absent"

StateOrder == <<"Start", "DirectoriesEnsured", "ReadmeWritten", "IgnoreFileWritten", "ConfigWritten", "VcsChecked", "GuidancePrinted", "Done">>

Rank(s) == CHOOSE j \in 1..8 : StateOrder[j] = s

\* C9: linear step order: within a run the states are visited in the order
\* Start, DirectoriesEnsured, ReadmeWritten, IgnoreFileWritten,
\* ConfigWritten, VcsChecked, GuidancePrinted, Done, one step at a time and
\* never backwards (a failing step leaves the sequence for good); a
\* directory changes only in Start, README.md only in DirectoriesEnsured
\* (all five directories then exist), .gitignore only in ReadmeWritten,
\* render.yaml only in IgnoreFileWritten, and the git check reports only in
\* ConfigWritten, when the three files are written.
C9_LinearOrder ==
    /\ [][IF pc \in {"Done", "Aborted"}
          THEN pc' = "Start" /\ run' = run + 1
          ELSE pc' = "Aborted" \/ Rank(pc') = Rank(pc) + 1]_vars
    /\ [][(\E d \in FiveDirSet : fs'[d] # fs[d]) => pc = "Start"]_vars
    /\ [][fs'["README.md"] # fs["README.md"] => pc = "DirectoriesEnsured"]_vars
    /\ [][fs'[".gitignore"] # fs[".gitignore"] => pc = "ReadmeWritten"]_vars
    /\ [][fs'["render.yaml"] # fs["render.yaml"] => pc = "IgnoreFileWritten"]_vars
    /\ [][(reported' # reported /\ reported' # "none") => pc = "ConfigWritten"]_vars
    /\ [](pc \notin {"Start", "Aborted"} => \A d \in FiveDirSet : fs[d].kind = "dir")
    /\ [](pc \in {"ConfigWritten", "VcsChecked", "GuidancePrinted", "Done"} =>
             \A t \in ThreeFileSet : fs[t] = File(FixedContent(t)))

C9_Witness == pc = "Done" /\ run = 1 /\ fs0["README.md"] = File(<<"old">>) /\ fs0["js"].kind = "absent"

HasCollision == \E j \in 1..5 : fs0[FiveDirs[j]].kind = "file"

FirstCollision == CHOOSE j \in 1..5 : fs0[FiveDirs[j]].kind = "file" /\ \A h \in 1..(j - 1) : fs0[FiveDirs[h]].kind # "file"

\* C10: path collision: when one of the five directory names exists as a
\* regular file at the start of a run, the run never gets past directory
\* creation: it aborts at that name (or at an earlier name, on another
\* failure); the colliding file is unchanged, the directories listed after
\* it are as they were, none of the three files is written, and when the
\* abort is at the colliding name every directory listed before it exists.
C10_PathCollision ==
    HasCollision =>
        /\ pc \in {"Start", "Aborted"}
        /\ fs[FiveDirs[FirstCollision]] = fs0[FiveDirs[FirstCollision]]
        /\ \A j \in (FirstCollision + 1)..5 : fs[FiveDirs[j]] = fs0[FiveDirs[j]]
        /\ \A t \in ThreeFileSet : fs[t] = fs0[t]
        /\ pc = "Aborted" =>
              /\ Pos(failedAt) <= FirstCollision
              /\ failedAt = FiveDirs[FirstCollision] => \A j \in 1..(FirstCollision - 1) : fs[FiveDirs[j]].kind = "dir"

C10_Witness ==
    /\ pc = "Aborted" /\ failedAt = "assets"
    /\ fs0["assets"] = File(<<"old">>) /\ fs["assets"] = File(<<"old">>)
    /\ fs0["markers"].kind = "absent" /\ fs["markers"].kind = "dir"
    /\ fs["css"].kind = "absent" /\ fs["README.md"].kind = "absent"

====
